---------------------------- MODULE Spec2Model ----------------------------
(***************************************************************************)
(* Black-Scholes pricing of European options (src/EuropeanOption.py).      *)
(*                                                                         *)
(* Floating point numbers are modelled as fixed point integers: the real   *)
(* number x is the integer x * SC.  The non-finite results numpy produces  *)
(* (nan, +inf, -inf) are separate values.  A value is a record             *)
(*     [k |-> kind, v |-> integer]                                         *)
(* with kind "num" (v is the fixed point number), "nan", "inf" (v is the   *)
(* sign), "none" (Python's None), and "raise" (an exception; v is 1 for    *)
(* ValueError and 2 for ZeroDivisionError).                                *)
(***************************************************************************)
EXTENDS Integers, Sequences, FiniteSets, TLC

\* fixed point scale: six decimal digits
SC == 10^6

-----------------------------------------------------------------------------
(* Fixed point arithmetic.  TLC's integers are 32 bits wide, so products   *)
(* and quotients are computed in parts.                                    *)

\* Only({e(x) : x \in {a}}) is e(a) with a evaluated once: TLC evaluates a
\* LET definition or an operator argument again at each use
Only(S) == CHOOSE x \in S : TRUE

Abs(a) == IF a < 0 THEN -a ELSE a

Sgn(a) == IF a < 0 THEN -1 ELSE IF a > 0 THEN 1 ELSE 0

\* a * b for a, b >= 0
MulPos(a, b) ==
    LET ah == a \div 1000
        al == a % 1000
        bh == b \div 1000
        bl == b % 1000
    IN  ah * bh + (ah * bl + al * bh + (al * bl) \div 1000) \div 1000

\* a * b, both fixed point (|a * b| < 2147 as real numbers)
Mul(a, b) ==
    Only({Sgn(x) * Sgn(y) * MulPos(Abs(x), Abs(y)) : x \in {a}, y \in {b}})

\* the first n decimal digits of r / b, for 0 <= r < b
RECURSIVE Frac(_, _, _)
Frac(r, b, n) ==
    IF n = 0 THEN 0
    ELSE Only({(q \div b) * 10^(n - 1) + Frac(q % b, b, n - 1) : q \in {r * 10}})

\* a / b, both fixed point, b # 0
Div(a, b) ==
    Only({Sgn(x) * Sgn(y) * ((Abs(x) \div Abs(y)) * SC
                             + Frac(Abs(x) % Abs(y), Abs(y), 6))
          : x \in {a}, y \in {b}})

\* Newton's iteration for the square root, from above
RECURSIVE SqrtIter(_, _)
SqrtIter(x, y) ==
    Only({IF z >= y THEN y ELSE SqrtIter(x, z) : z \in {(y + Div(x, y)) \div 2}})

\* sqrt(t) for t >= 0
Sqrt(t) ==
    Only({IF x = 0 THEN 0 ELSE SqrtIter(x, (x + SC) \div 2 + 1) : x \in {t}})

\* z + z^3/3 + z^5/5 + ... : the terms from z^n / n on, p = z^n
RECURSIVE AtanhSeries(_, _, _)
AtanhSeries(z, p, n) ==
    Only({IF q = 0 \/ n > 25 THEN 0
          ELSE q \div n + AtanhSeries(z, Mul(Mul(q, z), z), n + 2)
          : q \in {p}})

\* ln 2 = 2 atanh(1/3)
LN2 == 2 * AtanhSeries(SC \div 3, SC \div 3, 1)

\* math.log(x) for x > 0: x is halved or doubled into [3/4, 3/2], where
\* ln x = 2 atanh((x - 1) / (x + 1))
RECURSIVE Ln(_)
Ln(x) ==
    Only({IF 2 * y > 3 * SC THEN LN2 + Ln(y \div 2)
          ELSE IF 4 * y < 3 * SC THEN Ln(2 * y) - LN2
          ELSE Only({2 * AtanhSeries(z, z, 1) : z \in {Div(y - SC, y + SC)}})
          : y \in {x}})

\* 1 + x + x^2/2! + ... : the terms from p = x^n / n! on
RECURSIVE ExpSeries(_, _, _)
ExpSeries(x, p, n) ==
    Only({IF q = 0 \/ n > 20 THEN 0
          ELSE q + ExpSeries(x, Mul(q, x) \div (n + 1), n + 1)
          : q \in {p}})

\* math.exp(x): exp(x) = exp(x/2)^2 until |x| <= 1/2
RECURSIVE Exp(_)
Exp(x) ==
    Only({IF y < -(20 * SC) THEN 0
          ELSE IF 2 * Abs(y) > SC
               THEN Only({Mul(h, h) : h \in {Exp(y \div 2)}})
               ELSE ExpSeries(y, SC, 0)
          : y \in {x}})

\* norm.pdf(x) = exp(-x^2 / 2) / sqrt(2 pi), x finite
Pdf(x) ==
    Only({IF Abs(y) > 8 * SC THEN 0
          ELSE Mul(398942, Exp(-(Mul(y, y) \div 2)))
          : y \in {x}})

\* the polynomial of Abramowitz and Stegun 26.2.17 at t = 1 / (1 + p x)
CdfPoly(t) ==
    LET p5 == 1330274
        p4 == Mul(p5, t) - 1821256
        p3 == Mul(p4, t) + 1781478
        p2 == Mul(p3, t) - 356564
        p1 == Mul(p2, t) + 319382
    IN  Mul(p1, t)

\* norm.cdf(x) for x >= 0
CdfPos(x) ==
    Only({IF y > 8 * SC THEN SC
          ELSE Only({SC - Mul(Pdf(y), CdfPoly(t))
                     : t \in {Div(SC, SC + Mul(231642, y))}})
          : y \in {x}})

\* norm.cdf(x), x finite
Cdf(x) == Only({IF y >= 0 THEN CdfPos(y) ELSE SC - CdfPos(-y) : y \in {x}})

-----------------------------------------------------------------------------
(* Values: floats with numpy's nan and inf, None, and raised exceptions.   *)

Num(n) == [k |-> "num", v |-> n]

NaN == [k |-> "nan", v |-> 0]

\* s = 1 for +inf, -1 for -inf
Inf(s) == [k |-> "inf", v |-> s]

None == [k |-> "none", v |-> 0]

\* e is "ValueError" or "ZeroDivisionError"
Raise(e) == [k |-> e, v |-> 0]

IsRaise(x) == x.k \in {"ValueError", "ZeroDivisionError"}

\* np.sqrt: nan below zero
XSqrt(t) == IF t < 0 THEN NaN ELSE Num(Sqrt(t))

\* a / b in numpy, a finite: no exception, the quotient is nan or inf when
\* b is 0 (zs is the sign of the zero)
XDiv(a, b, zs) ==
    Only({IF y.k = "nan" THEN NaN
          ELSE IF y.v = 0 THEN (IF x = 0 THEN NaN ELSE Inf(Sgn(x) * zs))
          ELSE Num(Div(x, y.v))
          : x \in {a}, y \in {b}})

\* norm.cdf on a value
XCdf(x) ==
    Only({IF y.k = "nan" THEN NaN
          ELSE IF y.k = "inf" THEN (IF y.v > 0 THEN Num(SC) ELSE Num(0))
          ELSE Num(Cdf(y.v))
          : y \in {x}})

\* norm.pdf on a value
XPdf(x) ==
    Only({IF y.k = "nan" THEN NaN
          ELSE IF y.k = "inf" THEN Num(0)
          ELSE Num(Pdf(y.v))
          : y \in {x}})

\* -x on a value
XNeg(x) ==
    Only({IF y.k = "nan" THEN NaN ELSE [k |-> y.k, v |-> -y.v] : y \in {x}})

\* c * x, c finite
XScale(c, x) ==
    Only({IF y.k = "nan" THEN NaN ELSE Num(Mul(c, y.v)) : y \in {x}})

XSub(a, b) ==
    Only({IF x.k = "nan" \/ y.k = "nan" THEN NaN ELSE Num(x.v - y.v)
          : x \in {a}, y \in {b}})

XAdd(a, b) ==
    Only({IF x.k = "nan" \/ y.k = "nan" THEN NaN ELSE Num(x.v + y.v)
          : x \in {a}, y \in {b}})

-----------------------------------------------------------------------------
(* Strings are sequences of characters, so that str.lower is computed.     *)

UpperAlpha == <<"A","B","C","D","E","F","G","H","I","J","K","L","M",
                "N","O","P","Q","R","S","T","U","V","W","X","Y","Z">>

LowerAlpha == <<"a","b","c","d","e","f","g","h","i","j","k","l","m",
                "n","o","p","q","r","s","t","u","v","w","x","y","z">>

LowerChar(c) ==
    IF \E i \in DOMAIN UpperAlpha : UpperAlpha[i] = c
    THEN LowerAlpha[CHOOSE i \in DOMAIN UpperAlpha : UpperAlpha[i] = c]
    ELSE c

\* str.lower
Lower(s) == [i \in DOMAIN s |-> LowerChar(s[i])]

CALL == <<"c","a","l","l">>

PUT == <<"p","u","t">>

-----------------------------------------------------------------------------
(* The pricing formulas, as functions of the six fields.                   *)

\* sigma * np.sqrt(T)
SigmaSqrtT(t, sg) ==
    Only({IF sq.k = "nan" THEN NaN ELSE Num(Mul(sg, sq.v)) : sq \in {XSqrt(t)}})

\* d1 and d2 from the numerator and the denominator of d1
D1D2(num, den, zs) ==
    Only({[err |-> None,
           d1  |-> d1,
           d2  |-> IF d1.k = "num" THEN Num(d1.v - den.v) ELSE d1]
          : d1 \in {XDiv(num, den, zs)}})

\* _d1_d2: S0 / K raises ZeroDivisionError when K is 0, math.log raises
\* ValueError when S0 / K <= 0; the division by sigma * sqrt(T) is numpy's
d1_d2(s0, k, t, rr, sg) ==
    IF k = 0 THEN [err |-> Raise("ZeroDivisionError"), d1 |-> NaN, d2 |-> NaN]
    ELSE Only({IF q <= 0
               THEN [err |-> Raise("ValueError"), d1 |-> NaN, d2 |-> NaN]
               ELSE Only({D1D2(num, den, IF sg < 0 THEN -1 ELSE 1)
                          : num \in {Ln(q) + Mul(rr + Mul(sg, sg) \div 2, t)},
                            den \in {SigmaSqrtT(t, sg)}})
               : q \in {Div(s0, k)}})

\* K * exp(-r * T)
Discounted(k, t, rr) == Mul(k, Exp(-Mul(rr, t)))

\* black_and_scholes comparing the side as it is stored, as the Greeks do
PriceFromCaseSensitive(d, s0, k, t, rr, ty) ==
    IF IsRaise(d.err) THEN d.err
    ELSE IF ty = CALL
    THEN XSub(XScale(s0, XCdf(d.d1)),
              XScale(Discounted(k, t, rr), XCdf(d.d2)))
    ELSE IF ty = PUT
    THEN XSub(XScale(Discounted(k, t, rr), XCdf(XNeg(d.d2))),
              XScale(s0, XCdf(XNeg(d.d1))))
    ELSE Raise("ValueError")

\* black_and_scholes with N(d2) for N(-d2) in the price of the put
PriceFromPutSign(d, s0, k, t, rr, ty) ==
    IF IsRaise(d.err) THEN d.err
    ELSE IF Lower(ty) = CALL
    THEN XSub(XScale(s0, XCdf(d.d1)),
              XScale(Discounted(k, t, rr), XCdf(d.d2)))
    ELSE IF Lower(ty) = PUT
    THEN XSub(XScale(Discounted(k, t, rr), XCdf(d.d2)),
              XScale(s0, XCdf(XNeg(d.d1))))
    ELSE Raise("ValueError")

\* black_and_scholes after the call of _d1_d2
PriceFrom(d, s0, k, t, rr, ty) ==
    IF IsRaise(d.err) THEN d.err
    ELSE IF Lower(ty) = CALL
    THEN XSub(XScale(s0, XCdf(d.d1)),
              XScale(Discounted(k, t, rr), XCdf(d.d2)))
    ELSE IF Lower(ty) = PUT
    THEN XSub(XScale(Discounted(k, t, rr), XCdf(XNeg(d.d2))),
              XScale(s0, XCdf(XNeg(d.d1))))
    ELSE Raise("ValueError")

black_and_scholes(s0, k, t, rr, sg, ty) ==
    Only({PriceFrom(d, s0, k, t, rr, ty) : d \in {d1_d2(s0, k, t, rr, sg)}})

DeltaFrom(d, ty) ==
    IF IsRaise(d.err) THEN d.err
    ELSE IF ty = CALL THEN XCdf(d.d1)
    ELSE IF ty = PUT THEN XSub(XCdf(d.d1), Num(SC))
    ELSE None

delta(s0, k, t, rr, sg, ty) ==
    Only({DeltaFrom(d, ty) : d \in {d1_d2(s0, k, t, rr, sg)}})

GammaFrom(d, s0, t, sg) ==
    IF IsRaise(d.err) THEN d.err
    ELSE Only({IF n.k = "nan" THEN NaN
               ELSE XDiv(n.v, XScale(Mul(Mul(s0, sg), sg), XSqrt(t)), 1)
               : n \in {XPdf(d.d1)}})

gamma(s0, k, t, rr, sg, ty) ==
    Only({GammaFrom(d, s0, t, sg) : d \in {d1_d2(s0, k, t, rr, sg)}})

VegaFrom(d, s0, t, sg) ==
    IF IsRaise(d.err) THEN d.err
    ELSE Only({IF a.k = "nan" \/ n.k = "nan" THEN NaN ELSE Num(Mul(a.v, n.v))
               : a \in {XScale(Mul(s0, sg), XSqrt(t))}, n \in {XPdf(d.d1)}})

vega(s0, k, t, rr, sg, ty) ==
    Only({VegaFrom(d, s0, t, sg) : d \in {d1_d2(s0, k, t, rr, sg)}})

\* -S0 * sigma * n(d1) / (2 * sqrt(T))
ThetaDecay(s0, t, sg, d1) ==
    Only({IF n.k = "nan" \/ sq.k = "nan" THEN NaN
          ELSE XDiv(-Mul(Mul(s0, sg), n.v), Num(2 * sq.v), 1)
          : n \in {XPdf(d1)}, sq \in {XSqrt(t)}})

ThetaFrom(d, s0, k, t, rr, sg, ty) ==
    IF IsRaise(d.err) THEN d.err
    ELSE IF ty = CALL
    THEN XSub(ThetaDecay(s0, t, sg, d.d1),
              XScale(Mul(rr, Discounted(k, t, rr)), XCdf(d.d2)))
    ELSE IF ty = PUT
    THEN XAdd(ThetaDecay(s0, t, sg, d.d1),
              XScale(Mul(rr, Discounted(k, t, rr)), XCdf(XNeg(d.d2))))
    ELSE None

theta(s0, k, t, rr, sg, ty) ==
    Only({ThetaFrom(d, s0, k, t, rr, sg, ty) : d \in {d1_d2(s0, k, t, rr, sg)}})

RhoFrom(d, k, t, rr, ty) ==
    IF IsRaise(d.err) THEN d.err
    ELSE IF ty = CALL
    THEN XScale(Mul(Mul(k, t), Exp(-Mul(rr, t))), XCdf(d.d2))
    ELSE IF ty = PUT
    THEN XScale(-Mul(Mul(k, t), Exp(-Mul(rr, t))), XCdf(XNeg(d.d2)))
    ELSE None

rho(s0, k, t, rr, sg, ty) ==
    Only({RhoFrom(d, k, t, rr, ty) : d \in {d1_d2(s0, k, t, rr, sg)}})

-----------------------------------------------------------------------------
(* implied_volatility: least_squares(obj, [0.1]).x[0].  The library's      *)
(* search is modelled as a Gauss-Newton iteration inside a trust region,   *)
(* for one unknown: it ends with status 1 when the gradient vanishes, with *)
(* status 3 when the step vanishes, and with status 0 when the budget of   *)
(* function evaluations is spent.                                          *)

\* the budget of function evaluations (max_nfev)
MaxNfev == 4

\* the initial guess [0.1]
X0 == SC \div 10

\* the step of the finite difference that estimates the derivative
FdStep == SC \div 1000

\* obj = lambda sigma: np.abs(market_price - EuropeanOption(...).price),
\* a = [mp, S0, K, T, r, type]
Obj(a, x) ==
    Only({IF IsRaise(p) \/ p.k = "nan" THEN p ELSE Num(Abs(a.mp - p.v))
          : p \in {black_and_scholes(a.S0, a.K, a.T, a.r, x, a.type)}})

\* the forward difference (obj(x + h) - obj(x)) / h
Jac(a, x, f) ==
    Only({IF IsRaise(fh) \/ fh.k = "nan" THEN fh
          ELSE Num(Div(fh.v - f, FdStep))
          : fh \in {Obj(a, x + FdStep)}})

\* the result object: x, status, nfev; err is the exception that ended the
\* search, if one did
Result(err, x, status, nfev) ==
    [err |-> err, x |-> x, status |-> status, nfev |-> nfev]

NoResult == Result(None, 0, -1, 0)

\* the Gauss-Newton step -f / J, kept inside the trust region
Clip(p, Delta) == IF p > Delta THEN Delta ELSE IF p < -Delta THEN -Delta ELSE p

RECURSIVE TrfLoop(_, _, _, _, _, _)
\* one evaluation at x + p: the step is taken when the residual decreases
\* (the region doubles when the step reached its edge), and the region
\* shrinks to a quarter of the step otherwise
TrfStep(a, x, f, J, Delta, nfev, p) ==
    IF p = 0 THEN Result(None, x, 3, nfev)
    ELSE Only({
        IF IsRaise(fn) THEN Result(fn, x, -1, nfev + 1)
        ELSE IF fn.k = "nan" \/ fn.v >= f
        THEN TrfLoop(a, x, f, J, Abs(p) \div 4, nfev + 1)
        ELSE Only({
            IF IsRaise(Jn) THEN Result(Jn, x + p, -1, nfev + 1)
            ELSE IF Jn.k = "nan" THEN Result(None, x + p, 0, MaxNfev)
            ELSE TrfLoop(a, x + p, fn.v, Jn.v,
                         IF Abs(p) = Delta THEN 2 * Delta ELSE Delta, nfev + 1)
            : Jn \in {Jac(a, x + p, fn.v)}})
        : fn \in {Obj(a, x + p)}})

TrfLoop(a, x, f, J, Delta, nfev) ==
    IF J = 0 \/ f = 0 THEN Result(None, x, 1, nfev)
    ELSE IF nfev >= MaxNfev THEN Result(None, x, 0, nfev)
    ELSE Only({TrfStep(a, x, f, J, Delta, nfev, p)
               : p \in {Clip(-Div(f, J), Delta)}})

\* least_squares(obj, [0.1]): residuals that are not finite at the initial
\* point raise ValueError
least_squares(a) ==
    Only({
        IF IsRaise(f0) THEN Result(f0, X0, -1, 1)
        ELSE IF f0.k = "nan" THEN Result(Raise("ValueError"), X0, -1, 1)
        ELSE Only({
            IF IsRaise(J0) THEN Result(J0, X0, -1, 1)
            ELSE IF J0.k = "nan" THEN Result(None, X0, 0, MaxNfev)
            ELSE TrfLoop(a, X0, f0.v, J0.v, X0, 1)
            : J0 \in {Jac(a, X0, f0.v)}})
        : f0 \in {Obj(a, X0)}})

\* what implied_volatility hands to its caller: .x[0] of the result
implied_volatility(a) ==
    Only({IF IsRaise(res.err) THEN res.err ELSE Num(res.x)
          : res \in {least_squares(a)}})

-----------------------------------------------------------------------------
(* The arguments the callers pass.                                         *)

S0Vals == {0, 100 * SC, 110 * SC}

KVals == {0, 100 * SC}

TVals == {0, SC}

rVals == {3 * (SC \div 100), 5 * (SC \div 100)}

sigmaVals == {2 * (SC \div 10), 3 * (SC \div 10)}

TypeVals == {CALL, PUT, <<"C","a","l","l">>, <<"P","U","T">>,
             <<"i","n","v","a","l","i","d">>}

\* the market prices handed to implied_volatility: 10, and the price of the
\* call at the money with a volatility of 20%
MarketPrices ==
    {10 * SC,
     black_and_scholes(100 * SC, 100 * SC, SC, 5 * (SC \div 100),
                       2 * (SC \div 10), CALL).v}

IVArgs ==
    [mp : MarketPrices, S0 : S0Vals, K : KVals, T : TVals, r : rVals,
     type : TypeVals]

-----------------------------------------------------------------------------
(* The state: one EuropeanOption object and the last call made.            *)

VARIABLES
    alive,      \* the contract object exists
    S0, K, T, r, sigma, type,   \* the fields _S0, _K, _T, _r, _sigma, _type
    price,      \* the field _price
    op,         \* the last call: its name, its argument, how it ended, and
                \* whether it began with a price that was not the fields'
    ret,        \* what the last call returned
    res         \* the result object of least_squares in the last call

fields == <<S0, K, T, r, sigma, type>>

vars == <<alive, S0, K, T, r, sigma, type, price, op, ret, res>>

Outcome(b) == IF IsRaise(b) THEN b.k ELSE "ok"

\* black_and_scholes() on the fields as they are
CurPrice == black_and_scholes(S0, K, T, r, sigma, type)

Called(name, arg, b) ==
    /\ op' = [name |-> name, arg |-> arg, outcome |-> Outcome(b),
              stale |-> alive /\ price # CurPrice]
    /\ res' = NoResult

Init ==
    /\ alive = FALSE
    /\ S0 = 0 /\ K = 0 /\ T = 0 /\ r = 0 /\ sigma = 0
    /\ type = << >>
    /\ price = None
    /\ op = [name |-> "none", arg |-> None, outcome |-> "ok", stale |-> FALSE]
    /\ ret = None
    /\ res = NoResult

\* EuropeanOption(S0, K, T, r, sigma, type): an exception out of __init__
\* leaves the caller without an object
Construct(s0, k, t, rr, sg, ty) ==
    /\ ~alive
    /\ \E b \in {black_and_scholes(s0, k, t, rr, sg, ty)} :
        /\ Called("construct",
                  [S0 |-> s0, K |-> k, T |-> t, r |-> rr, sigma |-> sg,
                   type |-> ty], b)
        /\ ret' = None
        /\ IF IsRaise(b)
           THEN UNCHANGED <<alive, S0, K, T, r, sigma, type, price>>
           ELSE /\ alive' = TRUE
                /\ S0' = s0 /\ K' = k /\ T' = t /\ r' = rr /\ sigma' = sg
                /\ type' = ty
                /\ price' = b

\* a setter that does not assign the new price
RepriceForgets(name, value, p) ==
    \E b \in {p} :
        /\ price' = price
        /\ Called(name, value, b)
        /\ ret' = None

\* self._price = self.black_and_scholes() at the end of a setter: the
\* assignment does not happen when black_and_scholes raises
Reprice(name, value, p) ==
    \E b \in {p} :
        /\ price' = IF IsRaise(b) THEN price ELSE b
        /\ Called(name, value, b)
        /\ ret' = None

SetS0(value) ==
    /\ alive
    /\ S0' = value
    /\ Reprice("set_S0", value, black_and_scholes(value, K, T, r, sigma, type))
    /\ UNCHANGED <<alive, K, T, r, sigma, type>>

\* the setter of K assigning to _S0
SetKWritesS0(value) ==
    /\ alive
    /\ S0' = value
    /\ Reprice("set_K", value, black_and_scholes(value, K, T, r, sigma, type))
    /\ UNCHANGED <<alive, K, T, r, sigma, type>>

SetK(value) ==
    /\ alive
    /\ K' = value
    /\ Reprice("set_K", value, black_and_scholes(S0, value, T, r, sigma, type))
    /\ UNCHANGED <<alive, S0, T, r, sigma, type>>

SetT(value) ==
    /\ alive
    /\ T' = value
    /\ Reprice("set_T", value, black_and_scholes(S0, K, value, r, sigma, type))
    /\ UNCHANGED <<alive, S0, K, r, sigma, type>>

Setr(value) ==
    /\ alive
    /\ r' = value
    /\ Reprice("set_r", value, black_and_scholes(S0, K, T, value, sigma, type))
    /\ UNCHANGED <<alive, S0, K, T, sigma, type>>

Setsigma(value) ==
    /\ alive
    /\ sigma' = value
    /\ Reprice("set_sigma", value, black_and_scholes(S0, K, T, r, value, type))
    /\ UNCHANGED <<alive, S0, K, T, r, type>>

\* the setter of type assigning before it validates
SettypeAssignsFirst(value) ==
    /\ alive
    /\ type' = Lower(value)
    /\ Reprice("set_type", value,
               black_and_scholes(S0, K, T, r, sigma, Lower(value)))
    /\ UNCHANGED <<alive, S0, K, T, r, sigma>>

Settype(value) ==
    /\ alive
    /\ IF Lower(value) \notin {CALL, PUT}
       THEN /\ Called("set_type", value, Raise("ValueError"))
            /\ ret' = None
            /\ UNCHANGED <<type, price>>
       ELSE /\ type' = Lower(value)
            /\ Reprice("set_type", value,
                       black_and_scholes(S0, K, T, r, sigma, Lower(value)))
    /\ UNCHANGED <<alive, S0, K, T, r, sigma>>

\* a Greek that keeps its result in _price
GreekWritesPrice(name, v) ==
    /\ alive
    /\ \E val \in {v} :
        /\ Called(name, None, val)
        /\ ret' = val
        /\ price' = IF IsRaise(val) THEN price ELSE val
    /\ UNCHANGED <<alive, S0, K, T, r, sigma, type>>

\* delta(), gamma(), vega(), theta(), rho()
Greek(name, v) ==
    /\ alive
    /\ \E val \in {v} :
        /\ Called(name, None, val)
        /\ ret' = val
    /\ UNCHANGED <<alive, S0, K, T, r, sigma, type, price>>

Delta == Greek("delta", delta(S0, K, T, r, sigma, type))

Gamma == Greek("gamma", gamma(S0, K, T, r, sigma, type))

Vega == Greek("vega", vega(S0, K, T, r, sigma, type))

Theta == Greek("theta", theta(S0, K, T, r, sigma, type))

Rho == Greek("rho", rho(S0, K, T, r, sigma, type))

\* f"{x:.2f}": x rounded to a whole number of cents
Format2f(x) ==
    IF x.k = "nan" THEN NaN
    ELSE Num(Sgn(x.v) * ((Abs(x.v) + SC \div 200) \div (SC \div 100)))

\* __repr__ without .lower() on the side
reprSideAsStored(s0, k, t, rr, sg, ty, p) ==
    [side  |-> ty,
     S0    |-> s0,
     K     |-> k,
     T     |-> t,
     unit  |-> IF t = SC THEN "year" ELSE "years",
     r     |-> Mul(rr, 100 * SC),
     sigma |-> Mul(sg, 100 * SC),
     C     |-> Format2f(p)]

\* the text __repr__ builds, part by part
repr(s0, k, t, rr, sg, ty, p) ==
    [side  |-> Lower(ty),
     S0    |-> s0,
     K     |-> k,
     T     |-> t,
     unit  |-> IF t = SC THEN "year" ELSE "years",
     r     |-> Mul(rr, 100 * SC),
     sigma |-> Mul(sg, 100 * SC),
     C     |-> Format2f(p)]

Repr ==
    /\ alive
    /\ Called("repr", None, None)
    /\ ret' = [k |-> "str", v |-> repr(S0, K, T, r, sigma, type, price)]
    /\ UNCHANGED <<alive, S0, K, T, r, sigma, type, price>>

\* implied_volatility(market_price, S0, K, T, r, type): a free function,
\* which reads and writes no contract, so that each call of it starts from
\* the same state: it is called once, first
ImpliedVolatility(a) ==
    /\ op.name = "none"
    /\ \E ls \in {least_squares(a)} :
        /\ res' = ls
        /\ op' = [name |-> "implied_volatility", arg |-> a,
                  outcome |-> Outcome(ls.err), stale |-> FALSE]
        /\ ret' = IF IsRaise(ls.err) THEN None ELSE Num(ls.x)
    /\ UNCHANGED <<alive, S0, K, T, r, sigma, type, price>>

Next ==
    \/ \E s0 \in S0Vals, k \in KVals, t \in TVals, rr \in rVals,
          sg \in sigmaVals, ty \in TypeVals : Construct(s0, k, t, rr, sg, ty)
    \/ \E value \in S0Vals : SetS0(value)
    \/ \E value \in KVals : SetK(value)
    \/ \E value \in TVals : SetT(value)
    \/ \E value \in rVals : Setr(value)
    \/ \E value \in sigmaVals : Setsigma(value)
    \/ \E value \in TypeVals : Settype(value)
    \/ Delta
    \/ Gamma
    \/ Vega
    \/ Theta
    \/ Rho
    \/ Repr
    \/ \E a \in IVArgs : ImpliedVolatility(a)

Spec == Init /\ [][Next]_vars

-----------------------------------------------------------------------------
(* The properties.                                                         *)

SetterNames == {"set_S0", "set_K", "set_T", "set_r", "set_sigma", "set_type"}

GreekNames == {"delta", "gamma", "vega", "theta", "rho"}

ValidSide(ty) == Lower(ty) \in {CALL, PUT}

contract == <<S0, K, T, r, sigma, type, price>>

\* C1: in every state with a contract, also after a setter call that
\* raised, the cached price is black_and_scholes() of the current fields.
C1_PriceNeverStale == alive => price = CurPrice

\* C2: after a setter call that returns normally, from any state, the
\* cached price is black_and_scholes() of the fields as the call left them.
C2_SetterRecomputes ==
    (op.name \in SetterNames /\ op.outcome = "ok") => price = CurPrice

\* a setter returned normally although the price it found was stale, left
\* by an earlier setter call that raised
C2_Recovered ==
    /\ op.name \in SetterNames
    /\ op.outcome = "ok"
    /\ op.stale
    /\ price.k = "num"

\* C3: assigning to type a string whose lowercase form is neither 'call'
\* nor 'put' raises ValueError and changes no field and not the price.
C3_InvalidTypeRejected ==
    [][(op'.name = "set_type" /\ ~ValidSide(op'.arg))
          => (op'.outcome = "ValueError" /\ UNCHANGED contract)]_vars

\* the type setter has rejected a string
C3_Rejected ==
    /\ op.name = "set_type"
    /\ ~ValidSide(op.arg)
    /\ op.outcome = "ValueError"
    /\ price.k = "num"

\* the formula of delta, theta or rho for a side
SidedGreek(name, side) ==
    IF name = "delta" THEN delta(S0, K, T, r, sigma, side)
    ELSE IF name = "theta" THEN theta(S0, K, T, r, sigma, side)
    ELSE rho(S0, K, T, r, sigma, side)

\* C4: on a contract whose side was accepted, in any letter case, delta(),
\* theta() and rho() return a number, the one the formula of that side
\* gives, and never no value.
C4_GreeksReturnValue ==
    (op.name \in {"delta", "theta", "rho"} /\ op.outcome = "ok")
        => (ret.k # "none" /\ ret = SidedGreek(op.name, Lower(type)))

C6_GreeksPure == [][op'.name \in GreekNames => UNCHANGED contract]_vars

\* a Greek has returned a number
C6_GreekCalled == op.name \in GreekNames /\ ret.k = "num" /\ ret.v # 0

\* the price the formula of the side of ty gives
PriceOfSide(s0, k, t, rr, sg, ty) ==
    IF Lower(ty) = CALL THEN black_and_scholes(s0, k, t, rr, sg, CALL)
    ELSE black_and_scholes(s0, k, t, rr, sg, PUT)

\* a construction with a side in whatever letter case is priced by the
\* formula of that side, where _d1_d2 returns
SideAccepted ==
    (ValidSide(op.arg.type)
     /\ ~IsRaise(d1_d2(op.arg.S0, op.arg.K, op.arg.T, op.arg.r,
                       op.arg.sigma).err))
        => /\ op.outcome = "ok"
           /\ alive
           /\ price = PriceOfSide(op.arg.S0, op.arg.K, op.arg.T, op.arg.r,
                                  op.arg.sigma, op.arg.type)

\* C7 as stated: constructing with a side that is neither 'call' nor 'put'
\* in lowercase raises ValueError and yields no contract; any letter case of
\* 'call' or 'put' is accepted and priced by the formula of that side.
C7_InvalidSideValueError ==
    op.name = "construct"
        => /\ ~ValidSide(op.arg.type)
                => (op.outcome = "ValueError" /\ ~alive)
           /\ SideAccepted

\* C7 as amended: constructing with such a side raises and yields no
\* contract; the exception is ValueError unless K is 0, where S0 / K raises
\* ZeroDivisionError before the side is looked at; any letter case of 'call'
\* or 'put' is accepted and priced by the formula of that side.
C7_InvalidSideRaises ==
    op.name = "construct"
        => /\ ~ValidSide(op.arg.type)
                => /\ ~alive
                   /\ op.outcome = IF op.arg.K = 0 THEN "ZeroDivisionError"
                                   ELSE "ValueError"
           /\ SideAccepted

\* a construction with an invalid side has raised ValueError
C7_Refused ==
    /\ op.name = "construct"
    /\ ~ValidSide(op.arg.type)
    /\ op.arg.K # 0
    /\ op.outcome = "ValueError"
    /\ ~alive

\* the tolerance of the parity: a thousandth
ParityTol == SC \div 1000

\* the price of the call and of the put with the fields of the contract:
\* the cached price for the side of the contract, the formula for the other
CallPrice ==
    IF Lower(type) = CALL THEN price
    ELSE black_and_scholes(S0, K, T, r, sigma, CALL)

PutPrice ==
    IF Lower(type) = PUT THEN price
    ELSE black_and_scholes(S0, K, T, r, sigma, PUT)

\* C8: put-call parity: with S0, K, T, sigma > 0 the price of the call less
\* the price of the put is S0 - K exp(-r T), within the tolerance.
C8_PutCallParity ==
    (alive /\ S0 > 0 /\ K > 0 /\ T > 0 /\ sigma > 0)
        => /\ CallPrice.k = "num"
           /\ PutPrice.k = "num"
           /\ Abs(CallPrice.v - PutPrice.v - (S0 - Mul(K, Exp(-Mul(r, T)))))
                <= ParityTol

\* a put in the money with valid parameters
C8_ValidPut ==
    /\ alive /\ S0 > K /\ K > 0 /\ T > 0 /\ sigma > 0
    /\ Lower(type) = PUT
    /\ price.k = "num" /\ price.v > 0

\* C9: repr renders the side in lowercase, S0, K, T, the unit 'year' exactly
\* when T is 1 and 'years' otherwise, r * 100, sigma * 100 and the cached
\* price with 2 decimal places; it changes no field.
C9_ReprLayout ==
    [][op'.name = "repr"
          => /\ ret'.k = "str"
             /\ ret'.v.side = Lower(type)
             /\ ret'.v.S0 = S0 /\ ret'.v.K = K /\ ret'.v.T = T
             /\ ret'.v.unit = (IF T = SC THEN "year" ELSE "years")
             /\ ret'.v.r = r * 100 /\ ret'.v.sigma = sigma * 100
             /\ IF price.k = "nan" THEN ret'.v.C = NaN
                ELSE /\ ret'.v.C.k = "num"
                     /\ Abs(price.v - ret'.v.C.v * (SC \div 100))
                            <= SC \div 200
             /\ UNCHANGED contract]_vars

\* repr has rendered a contract of one year whose side is stored in capitals
C9_Rendered ==
    /\ op.name = "repr"
    /\ type # Lower(type)
    /\ ret.v.unit = "year"
    /\ ret.v.C.k = "num" /\ ret.v.C.v > 0

\* C10: a setter call on S0, K, T, r or sigma changes at most that field
\* and the price, whether it returns or raises.
C10_SetterFrame ==
    [][/\ op'.name = "set_S0" => UNCHANGED <<K, T, r, sigma, type>>
       /\ op'.name = "set_K" => UNCHANGED <<S0, T, r, sigma, type>>
       /\ op'.name = "set_T" => UNCHANGED <<S0, K, r, sigma, type>>
       /\ op'.name = "set_r" => UNCHANGED <<S0, K, T, sigma, type>>
       /\ op'.name = "set_sigma" => UNCHANGED <<S0, K, T, r, type>>]_vars

\* the setter of K has raised
C10_SetterRaised == op.name = "set_K" /\ op.outcome = "ZeroDivisionError"

=============================================================================
